---- MODULE Spec2Model ----
(***************************************************************************)
(* State-machine model of torchtune/modules/peft/pissa.py: PiSSALinear,    *)
(* QATPiSSALinear and the parameter initialisers.                          *)
(*                                                                         *)
(* Tensors live in a heap of cells so that the aliasing performed by       *)
(* QATPiSSALinear.from_lora_linear (two layers holding the same Parameter) *)
(* is visible.  Tensor values are exact numbers <<n, d, r>> standing for   *)
(* (n / d) sqrt(r), r square-free: the rationals (r = 1) and the square    *)
(* roots that normalising a rational vector brings in.  float32 rounding   *)
(* is not modelled, every other conversion (NF4 storage, fake              *)
(* quantisation, dropout scaling, the alpha / rank scale) is computed.     *)
(* Layers have in_dim, out_dim <= 2 and the weights loaded are generalised *)
(* permutation ("monomial") matrices; the weights initialize_pissa leaves  *)
(* are whatever the decompositions give.                                   *)
(***************************************************************************)
EXTENDS Integers, Sequences, FiniteSets, TLC

\* ---------------------------------------------------------------- bounds
\* Largest magnitude of an entry of a loaded base weight.
MaxVal == 2
\* Largest number of successful initialize_pissa calls on one weight tensor.
MaxInit == 2
\* Largest common denominator of the entries of a weight that is decomposed
\* again: what is computed from it stays within 32-bit integers.
MaxDen == 256

\* ------------------------------------------------------ exact arithmetic
RECURSIVE GCD(_, _)
GCD(a, b) == IF b = 0 THEN a ELSE GCD(b, a % b)

Abs(n) == IF n < 0 THEN -n ELSE n

\* The rational n/d (d # 0) in lowest terms with a positive denominator.
Norm(n, d) ==
    LET s == IF d < 0 THEN -1 ELSE 1
        g == GCD(Abs(n), Abs(d))
    IN  <<(s * n) \div g, (s * d) \div g, 1>>

\* (n / d) sqrt(r) for a square-free r >= 1; zero is written with r = 1.
Surd(n, d, r) ==
    IF n = 0 THEN <<0, 1, 1>>
    ELSE LET q == Norm(n, d) IN <<q[1], q[2], r>>

\* A real number that is none of these (the sum of two non-zero numbers with
\* different roots, a singular vector that needs a nested root) is written
\* NaR; whatever is computed from NaR is NaR.
NaR == <<1, 1, 0>>
IsNaR(a) == a[3] = 0
IsRational(a) == a[3] = 1

R(n) == <<n, 1, 1>>
RZero == R(0)
\* Sums and products cancel common factors before they multiply, which keeps
\* the intermediate integers small.
RAdd(a, b) ==
    IF IsNaR(a) \/ IsNaR(b) THEN NaR
    ELSE IF a[1] = 0 THEN b
    ELSE IF b[1] = 0 THEN a
    ELSE IF a[3] # b[3] THEN NaR
    ELSE LET g == GCD(a[2], b[2])
         IN  Surd(a[1] * (b[2] \div g) + b[1] * (a[2] \div g), (a[2] \div g) * b[2], a[3])
RNeg(a) == IF IsNaR(a) THEN NaR ELSE <<-a[1], a[2], a[3]>>
RSub(a, b) == RAdd(a, RNeg(b))
\* sqrt(r) sqrt(s) = g sqrt((r / g) (s / g)) for g = gcd(r, s), r and s
\* square-free.
RMul(a, b) ==
    IF IsNaR(a) \/ IsNaR(b) THEN NaR
    ELSE IF a[1] = 0 \/ b[1] = 0 THEN RZero
    ELSE LET g1 == GCD(Abs(a[1]), b[2])
             g2 == GCD(Abs(b[1]), a[2])
             n == (a[1] \div g1) * (b[1] \div g2)
             d1 == a[2] \div g2
             d2 == b[2] \div g1
         IN  IF IsRational(a) /\ IsRational(b) THEN <<n, d1 * d2, 1>>
             ELSE LET gr == GCD(a[3], b[3])
                      h1 == GCD(gr, d1)
                      h2 == GCD(gr \div h1, d2)
                  IN  <<n * ((gr \div h1) \div h2), (d1 \div h1) * (d2 \div h2),
                        (a[3] \div gr) * (b[3] \div gr)>>
\* 1 / ((n / d) sqrt(r)) = (d / (n r)) sqrt(r), for a non-zero number.
RInv(a) ==
    IF IsNaR(a) THEN NaR
    ELSE LET g == GCD(a[2], a[3])
         IN  Surd((IF a[1] < 0 THEN -1 ELSE 1) * (a[2] \div g), Abs(a[1]) * (a[3] \div g), a[3])
RDiv(a, b) == RMul(a, RInv(b))
RAbs(a) == IF IsNaR(a) THEN NaR ELSE <<Abs(a[1]), a[2], a[3]>>
RSign(a) == IF a[1] < 0 THEN -1 ELSE 1
\* a <= b: by the coefficients where the roots agree, by signs and squares
\* elsewhere.
RLeq(a, b) ==
    IF IsNaR(a) \/ IsNaR(b) THEN FALSE
    ELSE IF a[3] = b[3] \/ a[1] = 0 \/ b[1] = 0
    THEN LET g == GCD(a[2], b[2]) IN a[1] * (b[2] \div g) <= b[1] * (a[2] \div g)
    ELSE IF a[1] < 0 /\ b[1] > 0 THEN TRUE
    ELSE IF a[1] > 0 /\ b[1] < 0 THEN FALSE
    ELSE LET sa == a[1] * a[1] * a[3] * b[2] * b[2]
             sb == b[1] * b[1] * b[3] * a[2] * a[2]
         IN  IF a[1] > 0 THEN sa <= sb ELSE sb <= sa

\* floor(sqrt(n)) by Newton's iteration from x >= sqrt(n).
RECURSIVE Newton(_, _)
Newton(n, x) ==
    LET y == (x + n \div x) \div 2
    IN  IF y >= x THEN x ELSE Newton(n, y)
ISqrt(n) == IF n = 0 THEN 0 ELSE Newton(n, n)
\* The largest k with k * k dividing n >= 1.
SqPart(n) ==
    LET top == ISqrt(n)
    IN  CHOOSE k \in 1..top :
            /\ n % (k * k) = 0
            /\ \A j \in (k + 1)..top : n % (j * j) # 0
\* The square root of a non-negative rational.
RSqrt(a) ==
    IF ~IsRational(a) \/ a[1] < 0 THEN NaR
    ELSE IF a[1] = 0 THEN RZero
    ELSE LET kn == SqPart(a[1])
             kd == SqPart(a[2])
             sn == a[1] \div (kn * kn)
             sd == a[2] \div (kd * kd)
         IN  Surd(kn, kd * sd, sn * sd)

\* ------------------------------------------------------ vectors, matrices
\* A vector is a sequence of numbers, a matrix a sequence of rows.
Rows(M) == Len(M)
Cols(M) == IF Len(M) = 0 THEN 0 ELSE Len(M[1])

RECURSIVE SumTo(_, _)
SumTo(f, n) == IF n = 0 THEN RZero ELSE RAdd(SumTo(f, n - 1), f[n])

Dot(a, b) == SumTo([i \in 1..Len(a) |-> RMul(a[i], b[i])], Len(a))

ZeroVec(n) == [i \in 1..n |-> RZero]
ZeroMat(m, n) == [i \in 1..m |-> ZeroVec(n)]
VecAdd(a, b) == [i \in 1..Len(a) |-> RAdd(a[i], b[i])]
VecMul(a, b) == [i \in 1..Len(a) |-> RMul(a[i], b[i])]
VecScale(a, c) == [i \in 1..Len(a) |-> RMul(a[i], c)]
Transpose(M) == [j \in 1..Cols(M) |-> [i \in 1..Rows(M) |-> M[i][j]]]
MatVec(M, x) == [i \in 1..Rows(M) |-> Dot(M[i], x)]
MatMul(A, B) ==
    [i \in 1..Rows(A) |->
        [j \in 1..Cols(B) |-> Dot(A[i], [k \in 1..Rows(B) |-> B[k][j]])]]
MatSub(A, B) ==
    [i \in 1..Rows(A) |-> [j \in 1..Cols(A) |-> RSub(A[i][j], B[i][j])]]
MatAdd(A, B) ==
    [i \in 1..Rows(A) |-> [j \in 1..Cols(A) |-> RAdd(A[i][j], B[i][j])]]
Diag(s) ==
    [i \in 1..Len(s) |-> [j \in 1..Len(s) |-> IF i = j THEN s[i] ELSE RZero]]

\* ------------------------------------------------------------------ state
VARIABLES
    layers,   \* name -> module object; "lora" a PiSSALinear, "qat" a QATPiSSALinear
    heap,     \* tensor id -> [meta, val, nf4]: the Parameters the modules refer to
    ninit,    \* weight tensor id -> successful initialize_pissa calls on it
    orig,     \* weight tensor id -> its value before the first such call
    last,     \* the most recent call: operation, arguments, outcome
    torch     \* the release of torch the process imports

vars == <<layers, heap, ninit, orig, last, torch>>

\* The source pins no release of torch; torch.svd_lowrank was rewritten
\* after torch 2.2.
TorchReleases == {"through 2.2", "later"}

\* ---------------------------------------------- external numeric primitives
\* Round a rational to the nearest integer, ties toward zero.
RoundHalfToZero(a) ==
    LET n == Abs(a[1])
        d == a[2]
        up == -((d - 2 * n) \div (2 * d))   \* ceil(n/d - 1/2)
    IN  RSign(a) * up

RECURSIVE MaxAbsTo(_, _)
MaxAbsTo(v, n) ==
    IF n = 0 THEN RZero
    ELSE LET m == MaxAbsTo(v, n - 1)
         IN  IF RLeq(RAbs(v[n]), m) THEN m ELSE RAbs(v[n])

\* Absmax-scaled symmetric quantise/dequantise of one block of rationals to
\* the integer levels -qmax..qmax: x -> round(x / scale) * scale,
\* scale = absmax / qmax.
QuantBlock(v, qmax) ==
    LET a == MaxAbsTo(v, Len(v))
    IN  IF \E i \in 1..Len(v) : ~IsRational(v[i]) THEN [i \in 1..Len(v) |-> NaR]
        ELSE IF a = RZero THEN v
        ELSE LET scale == RDiv(a, R(qmax))
             IN  [i \in 1..Len(v) |->
                     RMul(R(RoundHalfToZero(RDiv(v[i], scale))), scale)]

\* Levels on each side of zero of the miniature NF4 code book.
NF4Levels == 1

\* to_nf4 followed by the dequantisation linear_nf4 / .to(float32) performs;
\* one block per weight row.
ToNF4(W) == [i \in 1..Rows(W) |-> QuantBlock(W[i], NF4Levels)]

\* A FakeQuantizeConfig, or None.
NoneCfg == [none |-> TRUE, qmax |-> 0, group_size |-> 0]
Cfg(q, g) == [none |-> FALSE, qmax |-> q, group_size |-> g]

\* FakeQuantizer(config) applied to a vector (per token) / nn.Identity().
FakeQuantVec(x, cfg) == IF cfg.none THEN x ELSE QuantBlock(x, cfg.qmax)
\* FakeQuantizer(config) applied to a weight (per output channel).
FakeQuantMat(W, cfg) ==
    IF cfg.none THEN W ELSE [i \in 1..Rows(W) |-> QuantBlock(W[i], cfg.qmax)]

Min(a, b) == IF a <= b THEN a ELSE b
Inj(k, n) == {f \in [1..k -> 1..n] : \A a, b \in 1..k : f[a] = f[b] => a = b}

\* The positive multiple of v with coprime integer entries: a direction does
\* not depend on the length of the vector that gives it.
RECURSIVE DenLcm(_, _)
DenLcm(v, k) ==
    IF k = 0 THEN 1
    ELSE LET l == DenLcm(v, k - 1) IN (l \div GCD(l, v[k][2])) * v[k][2]
RECURSIVE NumGcd(_, _, _)
NumGcd(v, l, k) ==
    IF k = 0 THEN 0 ELSE GCD(NumGcd(v, l, k - 1), Abs(v[k][1] * (l \div v[k][2])))
Primitive(v) ==
    LET l == DenLcm(v, Len(v))
        g == NumGcd(v, l, Len(v))
    IN  IF g = 0 THEN v
        ELSE [i \in 1..Len(v) |-> R((v[i][1] * (l \div v[i][2])) \div g)]

\* torch.randn(n, q): the draws are the leading n x q blocks of two generic
\* integer matrices.
TestMatrices(n, q) ==
    { [i \in 1..n |-> [c \in 1..q |-> R(D[i][c])]] :
        D \in { <<<<1, 2>>, <<2, -1>>>>, <<<<2, -1>>, <<-1, -2>>>> } }

\* in_dim and out_dim of the layers built.  Every matrix decomposed below has
\* at most two rows or at most two columns.
Dims == {1, 2}

\* No entry of M is NaR.
Known(M) == \A i \in 1..Rows(M), j \in 1..Cols(M) : ~IsNaR(M[i][j])
NaRVec(n) == [i \in 1..n |-> NaR]
NaRMat(m, n) == [i \in 1..m |-> NaRVec(n)]

\* Coordinate vector c of length m, and the first q of them.
CoordVec(m, c) == [i \in 1..m |-> IF i = c THEN R(1) ELSE RZero]
CoordFrame(m, q) == [c \in 1..q |-> CoordVec(m, c)]

\* The matrix whose columns are the vectors of f, and column j of M.
FromCols(f, m) == [i \in 1..m |-> [c \in 1..Len(f) |-> f[c][i]]]
Col(M, j) == [i \in 1..Rows(M) |-> M[i][j]]

\* The positive multiple of A with coprime integer entries.
PrimitiveMat(A) ==
    LET n == Cols(A)
        flat == Primitive([k \in 1..(Rows(A) * n) |-> A[((k - 1) \div n) + 1][((k - 1) % n) + 1]])
    IN  [i \in 1..Rows(A) |-> [j \in 1..n |-> flat[(i - 1) * n + j]]]

\* M # 0 has rank one: its non-zero rows lie along one direction.
RankOne(M) ==
    LET ps == { Primitive(M[i]) : i \in {k \in 1..Rows(M) : M[k] # ZeroVec(Cols(M))} }
    IN  \A a, b \in ps : a = b \/ a = [j \in 1..Cols(M) |-> RNeg(b[j])]

\* ||x|| for x # 0 with rational entries: x = c p for the primitive p along
\* x and a rational c > 0, and ||x|| = c sqrt(p . p).
Length(x) ==
    LET p == Primitive(x)
        i == CHOOSE k \in 1..Len(x) : x[k] # RZero /\ \A l \in 1..(k - 1) : x[l] = RZero
    IN  RMul(RDiv(x[i], p[i]), RSqrt(Dot(p, p)))

\* x / ||x|| for x # 0 with rational entries.
Normalized(x) ==
    LET p == Primitive(x) IN VecScale(p, RInv(RSqrt(Dot(p, p))))

\* The unit vector at a right angle to the 2-vector v.
Perp(v) == <<RNeg(v[2]), v[1]>>

\* The decompositions with the components ts[c] = <<u, s, v>>.  LAPACK fixes
\* the sign of a singular vector by the rounding of its input: the two
\* vectors of a component carry a common sign that may be either, and those
\* of a component with singular value zero each their own.
Signed(ts) ==
    LET k == Len(ts)
        Flip(x, e) == IF e = 1 THEN x ELSE [i \in 1..Len(x) |-> RNeg(x[i])]
    IN  { <<FromCols([c \in 1..k |-> Flip(ts[c][1], e[1][c])], Len(ts[1][1])),
            [c \in 1..k |-> ts[c][2]],
            FromCols([c \in 1..k |-> Flip(ts[c][3], e[2][c])], Len(ts[1][3]))>> :
          e \in { t \in [1..k -> {1, -1}] \X [1..k -> {1, -1}] :
                    \A c \in 1..k : ts[c][2] # RZero => t[1][c] = t[2][c] } }

\* The singular triple <<u, s, v>> of M along a right singular direction w
\* with M w # 0: v = w / ||w||, s = ||M w|| / ||w||, u = M w / ||M w||.
Component(M, w) ==
    <<Normalized(MatVec(M, w)), RDiv(Length(MatVec(M, w)), Length(w)), Normalized(w)>>

\* <<a, b, c, |det Mi|>> for an integer 2 x 2 matrix Mi with
\* Mi^T Mi = [[a, b], [b, c]].
Gram(Mi) ==
    <<(Mi[1][1][1] * Mi[1][1][1]) + (Mi[2][1][1] * Mi[2][1][1]),
      (Mi[1][1][1] * Mi[1][2][1]) + (Mi[2][1][1] * Mi[2][2][1]),
      (Mi[1][2][1] * Mi[1][2][1]) + (Mi[2][2][1] * Mi[2][2][1]),
      Abs((Mi[1][1][1] * Mi[2][2][1]) - (Mi[1][2][1] * Mi[2][1][1]))>>

\* The right singular directions of a 2 x 2 matrix of rank two, larger
\* singular value first, from G = Gram of its primitive multiple: the
\* eigenvectors (2 b, c - a +- root) of [[a, b], [b, c]] with
\* root = sqrt((a - c)^2 + 4 b^2) = sqrt((a + c - 2 |det|) (a + c + 2 |det|)).
\* For b = 0 the columns are orthogonal and the directions are the coordinate
\* vectors, in either order where the columns have one length.  Where root
\* is irrational the singular vectors are none of the model's numbers and the
\* set is empty.
RightFrames(G) ==
    LET p == (G[1] + G[3]) - (2 * G[4])
        q == (G[1] + G[3]) + (2 * G[4])
        g == GCD(p, q)
        rp == ISqrt(p \div g)
        rq == ISqrt(q \div g)
    IN  IF G[2] = 0
        THEN { [i \in 1..2 |-> CoordVec(2, f[i])] :
                 f \in { h \in Inj(2, 2) : G[(2 * h[1]) - 1] >= G[(2 * h[2]) - 1] } }
        ELSE IF (rp * rp) * g = p /\ (rq * rq) * g = q
        THEN { << <<R(2 * G[2]), R((G[3] - G[1]) + (g * rp * rq))>>,
                  <<R(2 * G[2]), R((G[3] - G[1]) - (g * rp * rq))>> >> }
        ELSE {}

\* The right singular directions of M # 0 that belong to its non-zero
\* singular values: the non-zero row of least index for a matrix of rank one
\* (its rows lie along one direction).
RightVectors(M) ==
    IF RankOne(M)
    THEN { <<M[CHOOSE i \in 1..Rows(M) :
                 /\ M[i] # ZeroVec(Cols(M))
                 /\ \A k \in 1..(i - 1) : M[k] = ZeroVec(Cols(M))]>> }
    ELSE RightFrames(Gram(PrimitiveMat(M)))

\* k components from those of the non-zero singular values: a 2 x 2 matrix of
\* rank one gets the component with singular value zero along the vectors
\* at a right angle.
Completed(ts, k) ==
    IF Len(ts) = k THEN ts
    ELSE <<ts[1], <<Perp(ts[1][1]), RZero, Perp(ts[1][3])>>>>

\* Every thin singular value decomposition M = U diag(S) V^H of a matrix with
\* at most two rows or columns, as <<U, S, V>> with k = min(rows, columns)
\* components, S non-negative and non-increasing.  For M = 0 the bases are
\* the coordinate vectors.  Factors that are not numbers of the model are NaR.
ThinSVD(M) ==
    LET m == Rows(M)
        n == Cols(M)
        k == Min(m, n)
    IN  IF ~Known(M) THEN {<<NaRMat(m, k), NaRVec(k), NaRMat(n, k)>>}
        ELSE IF M = ZeroMat(m, n)
        THEN {<<FromCols(CoordFrame(m, k), m), ZeroVec(k), FromCols(CoordFrame(n, k), n)>>}
        ELSE IF RightVectors(M) = {}
        THEN {<<NaRMat(m, k), NaRVec(k), NaRMat(n, k)>>}
        ELSE UNION { Signed(Completed([i \in 1..Len(W) |-> Component(M, W[i])], k)) :
                       W \in RightVectors(M) }

\* A has at most one non-zero entry in each row and in each column.
IsMonomial(A) ==
    /\ \A i \in 1..Rows(A) : Cardinality({j \in 1..Cols(A) : A[i][j] # RZero}) <= 1
    /\ \A j \in 1..Cols(A) : Cardinality({i \in 1..Rows(A) : A[i][j] # RZero}) <= 1

\* torch.linalg.svd(A, full_matrices=False), as <<V, S, Uh>> with
\* A = V diag(S) Uh.
SVD(A) == { <<t[1], t[2], Transpose(t[3])>> : t \in ThinSVD(A) }

\* qr(X).Q for a single column X, as a direction: the primitive vector along
\* X, and the first coordinate vector for X = 0 (the Householder reflector of
\* a zero column is the identity).
Direction(x) == IF x = ZeroVec(Len(x)) THEN CoordVec(Len(x), 1) ELSE Primitive(x)

\* The niter rounds Q = qr(A^H Q).Q, Q = qr(A Q).Q of get_approximate_basis.
RECURSIVE PowerIterate(_, _, _)
PowerIterate(A, x, niter) ==
    IF niter = 0 THEN x
    ELSE PowerIterate(A, Direction(MatVec(A, Direction(MatVec(Transpose(A), x)))),
                      niter - 1)

\* get_approximate_basis(A, q, niter) for a known A, over the draws of
\* torch.randn: the columns of Q as vectors of one length along orthogonal
\* directions.  With q at least min(rows, columns) the range of Q holds the
\* range of A, Q Q^H A = A, and Q stands as the coordinate frame.  Otherwise
\* q = 1 (A has at most two rows and columns) and Q is the direction of A r
\* after niter rounds.
GetApproximateBasis(A, q, niter) ==
    IF q >= Min(Rows(A), Cols(A)) THEN {CoordFrame(Rows(A), Rows(A))}
    ELSE { <<PowerIterate(PrimitiveMat(A),
                          Direction(MatVec(PrimitiveMat(A), Col(Rm, 1))), niter)>> :
             Rm \in TestMatrices(Cols(A), q) }

\* B = Q^H A, (Ub, S, Vh) = svd(B), U = Q Ub, V = Vh^H for the basis Q whose
\* columns are the vectors X[c] / ||X[c]||, all X[c] of one length.
ProjectedSVD(A, X) ==
    { <<MatMul(FromCols([c \in 1..Len(X) |-> Normalized(X[c])], Rows(A)), t[1]),
        [c \in 1..Len(t[2]) |-> RDiv(t[2][c], Length(X[1]))],
        t[3]>> :
      t \in ThinSVD(MatMul(X, A)) }

\* The decompositions <<U, S, V>> of A through a basis of its range.
RangeSVD(A, q, niter) ==
    IF ~Known(A)
    THEN {<<NaRMat(Rows(A), Min(q, Min(Rows(A), Cols(A)))),
            NaRVec(Min(q, Min(Rows(A), Cols(A)))),
            NaRMat(Cols(A), Min(q, Min(Rows(A), Cols(A))))>>}
    ELSE UNION { ProjectedSVD(A, X) : X \in GetApproximateBasis(A, q, niter) }

\* The number of columns of Q = get_approximate_basis(A, q, niter): the
\* reduced QR of the rows x q matrix A R keeps min(rows, q) columns, and each
\* round Q = qr(A^H Q).Q, Q = qr(A Q).Q passes through the columns of A.
BasisColumns(A, q, niter) ==
    IF niter = 0 THEN Min(Rows(A), q) ELSE Min(Min(Rows(A), Cols(A)), q)

\* The shape assertions torch.svd_lowrank makes through torch 2.2 fail.  For
\* a wide A, or an A of more than q columns, B_t = A Q with
\* Q = get_approximate_basis(A^H): assert B_t.shape[-1] == q and
\* B_t.shape[-1] <= B_t.shape[-2].  Otherwise B_t = (A^H Q)^T with
\* Q = get_approximate_basis(A): assert B_t.shape[-2] == q and
\* B_t.shape[-1] <= B_t.shape[-2].
LowrankAsserts(A, q, niter) ==
    IF Rows(A) < Cols(A) \/ Cols(A) > q
    THEN ~(/\ BasisColumns(Transpose(A), q, niter) = q
           /\ BasisColumns(Transpose(A), q, niter) <= Rows(A))
    ELSE ~(/\ BasisColumns(A, q, niter) = q
           /\ Cols(A) <= BasisColumns(A, q, niter))

\* The outcome of a torch.svd_lowrank call that raised AssertionError.
AssertionFailed == <<"AssertionError">>

\* torch.svd_lowrank(A, q, niter): its results <<U, S, V>>, and
\* AssertionFailed where it raises.  Through torch 2.2 the basis is that of
\* the range of A^H when A is wide or has more than q columns
\* (Q = get_approximate_basis(A^H), B = A Q, V = Q Vb) and that of the range
\* of A otherwise, and the shape of the projected matrix is asserted, which
\* fails when the basis has fewer than q columns.  Later a wide A is
\* transposed, the basis is that of the range of the tall matrix
\* (B = Q^H A, U = Q Ub), U and V are swapped back, and nothing is asserted.
\* Working on A^H and swapping U and V is the first projection.
SvdLowrank(A, q, niter) ==
    LET asserts == torch = "through 2.2" /\ LowrankAsserts(A, q, niter)
        onAdjoint == IF torch = "through 2.2"
                     THEN Rows(A) < Cols(A) \/ Cols(A) > q
                     ELSE Rows(A) < Cols(A)
    IN  IF asserts THEN {AssertionFailed}
        ELSE { IF onAdjoint THEN <<t[3], t[2], t[1]>> ELSE t :
               t \in RangeSVD(IF onAdjoint THEN Transpose(A) ELSE A, q, niter) }

\* ----------------------------------------------------------------- inputs
Alphas == {2, 4}
\* rank is not checked against in_dim and out_dim.
Ranks == {1, 2, 3}
\* Dropout probabilities, as rationals; 0 selects nn.Identity.
Dropouts == {RZero, Norm(1, 2)}
Devices == {"cpu", "meta"}
Seeds == {0, 1}
\* One unit of the value grid of freshly initialised parameters: 1/8 keeps
\* them inside the Kaiming-uniform bound 1/sqrt(fan_in) for fan_in <= 4.
Unit == Norm(1, 8)

\* Python values passed as keyword arguments or as fsvd_niter.
PyNone == [kind |-> "none", n |-> 0]
PyInt(n) == [kind |-> "int", n |-> n]
PyBool(b) == [kind |-> "bool", n |-> IF b THEN 1 ELSE 0]
PyFloat(n) == [kind |-> "float", n |-> n]
\* bool(v)
Truthy(v) == v.kind # "none" /\ v.n # 0

\* **quantization_kwargs: sets of [key, value] entries.
KwargsChoices ==
    { {},
      {[k |-> "block_size", v |-> PyInt(64)]},
      {[k |-> "block_size", v |-> PyNone]},
      {[k |-> "block_size", v |-> PyInt(0)], [k |-> "scaler_block_size", v |-> PyBool(FALSE)]} }

NiterChoices == {PyNone, PyInt(-1), PyFloat(1)}
FsvdNiterChoices == {PyNone, PyInt(0)}
FirstNiterChoices == {PyInt(1)}

\* Base weights: monomial out_dim x in_dim matrices, the non-zero entries of
\* distinct magnitudes among 1..MaxVal units, negative off the main diagonal.
Weights(m, n) ==
    LET k == Min(m, n)
    IN  { [i \in 1..m |-> [j \in 1..n |->
              IF \E c \in 1..k : rw[c] = i /\ cl[c] = j
              THEN RMul(R((IF i = j THEN 1 ELSE -1)
                          * vals[CHOOSE c \in 1..k : rw[c] = i /\ cl[c] = j]), Unit)
              ELSE RZero]] :
          <<rw, cl, vals>> \in Inj(k, m) \X Inj(k, n) \X Inj(k, MaxVal) }

\* Inputs of forward: vectors of in_dim small integers.
Inputs(n) == {[i \in 1..n |-> R(1)], [i \in 1..n |-> R(IF i = 1 THEN 3 ELSE -1)]}

\* nn.init.kaiming_uniform_(t, a=sqrt(5)): values drawn from
\* (-1/sqrt(fan_in), 1/sqrt(fan_in)); the draw is a function of the seed.
KaimingUniform(seed, rows, cols) ==
    [i \in 1..rows |-> [j \in 1..cols |->
        RMul(R((IF (seed + i + j) % 2 = 0 THEN 1 ELSE -1) * (1 + ((i + seed) % 2))), Unit)]]

\* torch.empty_like: whatever the allocation holds.
Uninitialized(seed, rows, cols) ==
    [i \in 1..rows |-> [j \in 1..cols |-> R(seed * (i + j - 1))]]

\* ------------------------------------------------------------ the modules
Id(name, field) == <<name, field>>
\* A tensor: nf4 marks an NF4Tensor, whose copy_ quantises what is written.
Cell(meta, val) == [meta |-> meta, val |-> val, nf4 |-> FALSE]
AsNF4(cell) == [cell EXCEPT !.nf4 = TRUE]
\* A tensor on the meta device has a shape and no data.
MetaCell(val) == Cell(TRUE, ZeroMat(Rows(val), Cols(val)))
OnDevice(device, val) == IF device = "meta" THEN MetaCell(val) ELSE Cell(FALSE, val)

NoSnap == << >>
NoOut == << >>
Last(op, target, err, arg, pre, x, out, adapter) ==
    [op |-> op, target |-> target, err |-> err, arg |-> arg, pre |-> pre,
     x |-> x, out |-> out, adapter |-> adapter]

Has(name) == name \in DOMAIN layers

\* A check on the presence of keyword arguments instead of their truthiness;
\* C9 tells it from line 68.
AnyKwargSupplied(kwargs) == kwargs # {}

\* line 68: any([v for v in quantization_kwargs.values()])
AnyKwargTruthy(kwargs) == \E e \in kwargs : Truthy(e.v)

\* A pissa_s that starts at one, as a LoRA-style magnitude would; C7 tells it
\* from the zero initialisation.
PissaSInitOnes(rank) == <<[c \in 1..rank |-> R(1)]>>

\* _pissa_s_init_params: nn.init.zeros_
PissaSInit(rank) == <<ZeroVec(rank)>>

\* PiSSALinear.__init__ after the argument check: the module object and the
\* Parameters it registers (pissa_s is held as a 1 x rank matrix cell).
NewLayer(name, cls, in_dim, out_dim, rank, alpha, dropout, use_bias, quantize_base, device, W, seed) ==
    [obj |-> [cls |-> cls, in_dim |-> in_dim, out_dim |-> out_dim, rank |-> rank,
              alpha |-> alpha, dropout |-> dropout, use_bias |-> use_bias,
              quantize_base |-> quantize_base, disabled |-> FALSE, merged |-> FALSE,
              weight |-> Id(name, "weight"), bias |-> Id(name, "bias"),
              u |-> Id(name, "pissa_u"), s |-> Id(name, "pissa_s"),
              v |-> Id(name, "pissa_v"),
              act_cfg |-> NoneCfg, w_cfg |-> NoneCfg],
     cells |->
        (Id(name, "weight") :> IF quantize_base THEN AsNF4(OnDevice(device, ToNF4(W)))
                               ELSE OnDevice(device, W))
        @@ (IF use_bias
            THEN Id(name, "bias") :>
                   OnDevice(device, <<[i \in 1..out_dim |-> RMul(R(i), Unit)]>>)
            ELSE << >>)
        @@ (Id(name, "pissa_u") :> OnDevice(device, KaimingUniform(seed, rank, in_dim)))
        @@ (Id(name, "pissa_s") :> OnDevice(device, PissaSInit(rank)))
        @@ (Id(name, "pissa_v") :> OnDevice(device, KaimingUniform(seed + 1, out_dim, rank)))]

Init ==
    /\ layers = << >>
    /\ heap = << >>
    /\ ninit = << >>
    /\ orig = << >>
    /\ torch \in TorchReleases
    /\ last = Last("none", "none", "none", PyNone, NoSnap, NoOut, NoOut, FALSE)

\* PiSSALinear(in_dim, out_dim, rank, alpha, dropout, use_bias, quantize_base,
\* **kwargs) under the default device `device`.
Construct(in_dim, out_dim, rank, alpha, dropout, use_bias, quantize_base, kwargs, device, W, seed) ==
    /\ ~Has("lora")
    /\ IF ~quantize_base /\ AnyKwargTruthy(kwargs)
       THEN /\ last' = Last("construct", "lora", "ValueError",
                            [quantize_base |-> quantize_base, kwargs |-> kwargs],
                            NoSnap, NoOut, NoOut, FALSE)
            /\ UNCHANGED <<layers, heap, ninit, orig, torch>>
       ELSE LET new == NewLayer("lora", "PiSSALinear", in_dim, out_dim, rank, alpha,
                                dropout, use_bias, quantize_base, device, W, seed)
            IN  /\ layers' = ("lora" :> new.obj) @@ layers
                /\ heap' = new.cells @@ heap
                /\ ninit' = (Id("lora", "weight") :> 0) @@ ninit
                /\ UNCHANGED torch
                /\ orig' = (Id("lora", "weight") :> new.cells[Id("lora", "weight")].val) @@ orig
                /\ last' = Last("construct", "lora", "none",
                                [quantize_base |-> quantize_base, kwargs |-> kwargs],
                                NoSnap, NoOut, NoOut, FALSE)

\* ------------------------------------------------------------- to_empty
\* PiSSALinear.to_empty(device="cpu"): pissa_u, pissa_s and pissa_v are
\* re-allocated without initialisation; weight and bias are not touched.
ToEmpty(name, seed) ==
    /\ Has(name)
    /\ LET l == layers[name]
       IN  /\ heap' = [heap EXCEPT
                  ![l.u] = Cell(FALSE, Uninitialized(seed, l.rank, l.in_dim)),
                  ![l.s] = Cell(FALSE, Uninitialized(seed, 1, l.rank)),
                  ![l.v] = Cell(FALSE, Uninitialized(seed + 1, l.out_dim, l.rank))]
           /\ last' = Last("to_empty", name, "none", PyNone, NoSnap, NoOut, NoOut, FALSE)
           /\ UNCHANGED <<layers, ninit, orig, torch>>

\* ------------------------------------------------ initialize_parameters
\* In-place initialisation of a tensor; a meta tensor has no data to write.
Filled(cell, val) == IF cell.meta THEN cell ELSE [cell EXCEPT !.val = val]

\* PiSSALinear.initialize_parameters(): pissa_u and pissa_v are drawn again,
\* pissa_s is zeroed.
InitializeParameters(name, seed) ==
    /\ Has(name)
    /\ LET l == layers[name]
       IN  /\ heap' = [heap EXCEPT
                  ![l.u] = Filled(@, KaimingUniform(seed, l.rank, l.in_dim)),
                  ![l.s] = Filled(@, PissaSInit(l.rank)),
                  ![l.v] = Filled(@, KaimingUniform(seed + 1, l.out_dim, l.rank))]
           /\ last' = Last("initialize_parameters", name, "none", PyNone,
                           NoSnap, NoOut, NoOut, FALSE)
           /\ UNCHANGED <<layers, ninit, orig, torch>>

\* ----------------------------------------------------- initialize_pissa
Four(l) == {l.weight, l.u, l.s, l.v}

\* A meta check over the adapter tensors only; C3 tells it from the check
\* over all four tensors.
AnyAdapterMeta(l, h) == \E t \in {l.u, l.s, l.v} : h[t].meta

\* lines 126-133: any([weight.is_meta, pissa_u.weight.is_meta, ...])
AnyMeta(l, h) == \E t \in Four(l) : h[t].meta

\* line 140: isinstance(fsvd_niter, int) and fsvd_niter >= 0 (bool is an int)
ValidNiter(niter) == niter.kind \in {"int", "bool"} /\ niter.n >= 0

\* alpha / rank
Scale(l) == Norm(l.alpha, l.rank)

\* A decomposition that always starts from the weight first loaded; C10 tells
\* it from one that starts from the current weight.
FirstLoadedWeight(l, h) == orig[l.weight]

\* line 138: base_weight = self.weight.to(torch.float32)
BaseWeight(l, h) == h[l.weight].val

FirstCols(M, r) == [i \in 1..Rows(M) |-> [j \in 1..r |-> M[i][j]]]
FirstRows(M, r) == [i \in 1..r |-> M[i]]

\* lines 141-143 and 149-153: the factors <<Vr, Sr, Uhr>>, Sr already divided
\* by alpha / rank, and AssertionFailed where line 141 raises.  A slice
\* [: rank] stops at the end of what it slices, so the exact path yields
\* min(rank, in_dim, out_dim) components.
Factors(l, base, niter) ==
    IF niter.kind # "none"
    THEN { IF t = AssertionFailed THEN AssertionFailed
           ELSE <<t[1], VecScale(t[2], RDiv(R(1), Scale(l))), Transpose(t[3])>> :
             t \in SvdLowrank(base, l.rank, niter.n) }
    ELSE { <<FirstCols(t[1], Min(l.rank, Len(t[2]))),
             VecScale([c \in 1..Min(l.rank, Len(t[2])) |-> t[2][c]], RDiv(R(1), Scale(l))),
             FirstRows(t[3], Min(l.rank, Len(t[2])))>> : t \in SVD(base) }

\* A residual that leaves the singular values out; C2 tells it from line 158.
ResidualWithoutS(base, Vr, Sr, Uhr) == MatSub(base, MatMul(Vr, Uhr))

\* line 158: residual_weight = base_weight - Vr @ torch.diag(Sr) @ Uhr
Residual(base, Vr, Sr, Uhr) == MatSub(base, MatMul(MatMul(Vr, Diag(Sr)), Uhr))

\* Tensor.copy_(src) into a rows x cols tensor: src is expanded along each
\* dimension in which it has size one, and any other difference in shape
\* raises.
Broadcastable(rows, cols, src) == Rows(src) \in {1, rows} /\ Cols(src) \in {1, cols}
Broadcast(rows, cols, src) ==
    [i \in 1..rows |-> [j \in 1..cols |->
        src[IF Rows(src) = 1 THEN 1 ELSE i][IF Cols(src) = 1 THEN 1 ELSE j]]]

\* line 159: self.weight.copy_(residual_weight.to(dtype)); copying into an
\* NF4 tensor quantises the source, whichever layer holds the tensor.
StoreWeight(dst, M) == [dst EXCEPT !.val = IF dst.nf4 THEN ToNF4(M) ELSE M]

Snapshot(l, h) == [t \in Four(l) |-> h[t]]

\* initialize_pissa(fsvd_niter), lines 126-159.  An AssertionError of
\* torch.svd_lowrank leaves line 141, before anything is written.  The copies
\* of lines 155-157 run in order and the first that cannot be broadcast
\* raises, leaving the earlier ones written.
InitializePissa(name, niter) ==
    /\ Has(name)
    /\ LET l == layers[name]
           pre == Snapshot(l, heap)
       IN  /\ IF AnyMeta(l, heap) \/ (niter.kind # "none" /\ ~ValidNiter(niter))
              THEN /\ last' = Last("initialize_pissa", name, "RuntimeError", niter,
                                   pre, NoOut, NoOut, FALSE)
                   /\ UNCHANGED <<layers, heap, ninit, orig, torch>>
              ELSE \E f \in Factors(l, BaseWeight(l, heap), niter) :
                     IF f = AssertionFailed
                     THEN /\ last' = Last("initialize_pissa", name, "AssertionError", niter,
                                          pre, NoOut, NoOut, FALSE)
                          /\ UNCHANGED <<layers, heap, ninit, orig, torch>>
                     ELSE LET
                         okU == Broadcastable(l.rank, l.in_dim, f[3])
                         okS == Broadcastable(1, l.rank, <<f[2]>>)
                         okV == Broadcastable(l.out_dim, l.rank, f[1])
                         h1 == [heap EXCEPT
                                  ![l.u] = Cell(FALSE, Broadcast(l.rank, l.in_dim, f[3]))]
                         h2 == [h1 EXCEPT
                                  ![l.s] = Cell(FALSE, Broadcast(1, l.rank, <<f[2]>>))]
                         h3 == [h2 EXCEPT
                                  ![l.v] = Cell(FALSE, Broadcast(l.out_dim, l.rank, f[1]))]
                     IN  IF okU /\ okS /\ okV
                         THEN /\ heap' = [h3 EXCEPT
                                    ![l.weight] = StoreWeight(heap[l.weight],
                                        Residual(BaseWeight(l, heap), f[1], f[2], f[3]))]
                              /\ ninit' = [ninit EXCEPT ![l.weight] = @ + 1]
                              /\ last' = Last("initialize_pissa", name, "none", niter,
                                              pre, NoOut, NoOut, FALSE)
                              /\ UNCHANGED <<layers, orig, torch>>
                         ELSE /\ heap' = IF ~okU THEN heap ELSE IF ~okS THEN h1 ELSE h2
                              /\ last' = Last("initialize_pissa", name, "RuntimeError", niter,
                                              pre, NoOut, NoOut, FALSE)
                              /\ UNCHANGED <<layers, ninit, orig, torch>>

\* ------------------------------------------------------------- forward
\* self.dropout(x) in training mode: nn.Identity when p = 0, else the kept
\* elements are scaled by 1 / (1 - p).
Dropout(l, x, mask) ==
    IF l.dropout = RZero THEN x
    ELSE [i \in 1..Len(x) |->
            IF mask[i] THEN RDiv(x[i], RSub(R(1), l.dropout)) ELSE RZero]

Masks(l) ==
    IF l.dropout = RZero THEN {[i \in 1..l.in_dim |-> TRUE]}
    ELSE [1..l.in_dim -> BOOLEAN]

\* lines 190-192 / 308-310: V (S * U(dropout(x)) * (alpha / rank))
AdapterBranch(l, h, xin) ==
    MatVec(h[l.v].val,
           VecScale(VecMul(MatVec(h[l.u].val, xin), h[l.s].val[1]), Scale(l)))

\* A forward pass that ignores the disabled flag; C6 tells it from lines
\* 188-189.
PissaForwardIgnoringDisabled(l, h, x, mask) ==
    LET base == IF l.use_bias
                THEN VecAdd(MatVec(h[l.weight].val, x), h[l.bias].val[1])
                ELSE MatVec(h[l.weight].val, x)
    IN  [out |-> VecAdd(base, AdapterBranch(l, h, Dropout(l, x, mask))),
         adapter |-> TRUE]

\* PiSSALinear.forward, lines 182-193
PissaForward(l, h, x, mask) ==
    LET base == IF l.quantize_base
                THEN LET o == MatVec(h[l.weight].val, x)
                     IN  IF l.use_bias THEN VecAdd(o, h[l.bias].val[1]) ELSE o
                ELSE IF l.use_bias
                     THEN VecAdd(MatVec(h[l.weight].val, x), h[l.bias].val[1])
                     ELSE MatVec(h[l.weight].val, x)
    IN  IF l.disabled
        THEN [out |-> base, adapter |-> FALSE]
        ELSE [out |-> VecAdd(base, AdapterBranch(l, h, Dropout(l, x, mask))),
              adapter |-> TRUE]

\* A QAT forward pass whose adapter branch reads the fake-quantized input; C8
\* tells it from line 308.
QATForwardQuantizedAdapter(l, h, x, mask) ==
    LET xq == FakeQuantVec(x, l.act_cfg)
        w == FakeQuantMat(h[l.weight].val, l.w_cfg)
        base == MatVec(w, xq)
    IN  IF l.disabled
        THEN [out |-> base, adapter |-> FALSE]
        ELSE [out |-> VecAdd(base, AdapterBranch(l, h, Dropout(l, xq, mask))),
              adapter |-> TRUE]

\* QATPiSSALinear.forward, lines 303-311
QATForward(l, h, x, mask) ==
    LET xq == FakeQuantVec(x, l.act_cfg)
        w == FakeQuantMat(h[l.weight].val, l.w_cfg)
        base == MatVec(w, xq)
    IN  IF l.disabled
        THEN [out |-> base, adapter |-> FALSE]
        ELSE [out |-> VecAdd(base, AdapterBranch(l, h, Dropout(l, x, mask))),
              adapter |-> TRUE]

ForwardOf(l, h, x, mask) ==
    IF l.cls = "QATPiSSALinear" THEN QATForward(l, h, x, mask)
    ELSE PissaForward(l, h, x, mask)

\* The tensors forward reads: the base transform's, and the adapter's unless
\* the layer is disabled.
ForwardReads(l) ==
    {l.weight}
    \cup (IF l.use_bias THEN {l.bias} ELSE {})
    \cup (IF l.disabled THEN {} ELSE {l.u, l.s, l.v})

\* The tensors forward reads all hold data.
Materialized(l, h) == \A t \in ForwardReads(l) : ~h[t].meta

\* forward(x) for a data tensor x: an operation that needs the data of a meta
\* tensor raises.
Forward(name, x, mask) ==
    /\ Has(name)
    /\ IF ~Materialized(layers[name], heap)
       THEN last' = Last("forward", name, "NotImplementedError", mask, NoSnap, x,
                         NoOut, FALSE)
       ELSE LET r == ForwardOf(layers[name], heap, x, mask)
            IN  last' = Last("forward", name, "none", mask, NoSnap, x, r.out, r.adapter)
    /\ UNCHANGED <<layers, heap, ninit, orig, torch>>

\* layer.disabled = b, the switch described at lines 82-85
SetDisabled(name, b) ==
    /\ Has(name)
    /\ layers[name].disabled # b
    /\ layers' = [layers EXCEPT ![name].disabled = b]
    /\ last' = Last("set_disabled", name, "none", PyBool(b), NoSnap, NoOut, NoOut, FALSE)
    /\ UNCHANGED <<heap, ninit, orig, torch>>

\* ---------------------------------------------------- from_lora_linear
\* lines 326-329: each ValueError is constructed and dropped, never raised.
FromLoraLinearRaises(lora_linear) == FALSE

\* lines 285-289
GroupSizeError(in_dim, w_cfg) ==
    ~w_cfg.none /\ w_cfg.group_size # 0 /\ in_dim % w_cfg.group_size # 0

\* nn.Linear's own weight initialisation for the new module.
FreshWeight(seed, m, n) ==
    [i \in 1..m |-> [j \in 1..n |-> IF i = j THEN RMul(R(seed + 1), Unit) ELSE RZero]]

\* lines 346-351: take over a Parameter of the source unless it is on meta.
Taken(h, src, own) == IF h[src].meta THEN own ELSE src

FromLoraLinear(act_cfg, w_cfg, seed) ==
    /\ Has("lora")
    /\ ~Has("qat")
    /\ LET src == layers["lora"]
           \* the new module is built under the default device of the source
           device == IF heap[src.weight].meta THEN "meta" ELSE "cpu"
           new == NewLayer("qat", "QATPiSSALinear", src.in_dim, src.out_dim, src.rank,
                           src.alpha, src.dropout, FALSE, FALSE, device,
                           FreshWeight(seed, src.out_dim, src.in_dim), seed)
           arg == [act_cfg |-> act_cfg, w_cfg |-> w_cfg, device |-> device]
       IN  IF FromLoraLinearRaises(src) \/ GroupSizeError(src.in_dim, w_cfg)
           THEN /\ last' = Last("from_lora_linear", "qat", "ValueError", arg,
                                NoSnap, NoOut, NoOut, FALSE)
                /\ UNCHANGED <<layers, heap, ninit, orig, torch>>
           ELSE LET obj == [new.obj EXCEPT
                              !.act_cfg = act_cfg, !.w_cfg = w_cfg,
                              !.weight = Taken(heap, src.weight, @),
                              !.u = Taken(heap, src.u, @),
                              !.v = Taken(heap, src.v, @)]
                    kept == [t \in DOMAIN heap \ {t2 \in DOMAIN heap : t2[1] = "qat"}
                                 |-> heap[t]]
                IN  /\ layers' = ("qat" :> obj) @@ layers
                    /\ heap' = [t \in {obj.weight, obj.u, obj.s, obj.v} |->
                                   IF t[1] = "qat" THEN new.cells[t] ELSE heap[t]] @@ kept
                    /\ ninit' = (obj.weight :> IF obj.weight[1] = "qat" THEN 0
                                               ELSE ninit[obj.weight])
                                @@ [t \in DOMAIN ninit \ {Id("qat", "weight")} |-> ninit[t]]
                    /\ UNCHANGED torch
                    /\ orig' = (obj.weight :> IF obj.weight[1] = "qat"
                                              THEN new.cells[obj.weight].val
                                              ELSE orig[obj.weight])
                               @@ [t \in DOMAIN orig \ {Id("qat", "weight")} |-> orig[t]]
                    /\ last' = Last("from_lora_linear", "qat", "none", arg,
                                    NoSnap, NoOut, NoOut, FALSE)

\* ------------------------------------------------------------------ next
QatCfgs == {NoneCfg, Cfg(1, 2)}
Names == {"lora", "qat"}

\* Constructor calls with the optional arguments at their defaults.
PlainArgs ==
    UNION { { [in_dim |-> n, out_dim |-> m, rank |-> r, alpha |-> a, dropout |-> RZero,
               use_bias |-> FALSE, quantize_base |-> FALSE, kwargs |-> {},
               device |-> "cpu", W |-> W, seed |-> 0] :
              r \in Ranks, a \in Alphas, W \in Weights(m, n) } :
            <<m, n>> \in Dims \X Dims }

\* Constructor calls over the optional arguments (dropout on its own, bias
\* and NF4 base also together), on one 2 x 2 weight whose singular values
\* coincide.
OptionArgs ==
    { [in_dim |-> 2, out_dim |-> 2, rank |-> 1, alpha |-> 4, dropout |-> o[1],
       use_bias |-> o[2], quantize_base |-> o[3], kwargs |-> kw, device |-> d,
       W |-> <<<<Unit, RZero>>, <<RZero, RNeg(Unit)>>>>, seed |-> 0] :
      o \in { t \in Dropouts \X BOOLEAN \X BOOLEAN : t[1] = RZero \/ (~t[2] /\ ~t[3]) },
      kw \in KwargsChoices, d \in Devices }

DoConstruct(Args) ==
    /\ ~Has("lora")
    /\ \E a \in Args :
        Construct(a.in_dim, a.out_dim, a.rank, a.alpha, a.dropout, a.use_bias,
                  a.quantize_base, a.kwargs, a.device, a.W, a.seed)

\* Sources of a conversion, at full rank: the default layer on either device,
\* and materialised layers with dropout, with a bias, with an NF4 base, with
\* both.
QatArgs ==
    { [a EXCEPT !.rank = 2,
                !.W = <<<<RMul(R(2), Unit), RZero>>, <<RZero, RNeg(Unit)>>>>] :
      a \in {b \in OptionArgs :
                /\ b.kwargs = {}
                /\ b.device = "meta" \/ b.dropout # RZero
                      => ~b.use_bias /\ ~b.quantize_base
                /\ b.device = "meta" => b.dropout = RZero} }

DoToEmpty(names, seeds) == \E name \in names, seed \in seeds : ToEmpty(name, seed)

DoInitializeParameters(names, seeds) ==
    \E name \in names, seed \in seeds : InitializeParameters(name, seed)

\* The least common denominator of the entries of W.
CommonDen(W) ==
    DenLcm([k \in 1..(Rows(W) * Cols(W)) |->
               W[((k - 1) \div Cols(W)) + 1][((k - 1) % Cols(W)) + 1]],
           Rows(W) * Cols(W))

\* initialize_pissa calls, while fewer than MaxInit calls have decomposed the
\* weight and its entries have a common denominator of at most MaxDen.
DoInitializePissa(names, niters) ==
    \E name \in names, niter \in niters :
       /\ Has(name)
       /\ ninit[layers[name].weight] < MaxInit
       /\ CommonDen(heap[layers[name].weight].val) <= MaxDen
       /\ InitializePissa(name, niter)

\* initialize_pissa calls on a weight no call has decomposed yet.
DoFirstInitializePissa(names, niters) ==
    \E name \in names, niter \in niters :
       /\ Has(name)
       /\ ninit[layers[name].weight] = 0
       /\ InitializePissa(name, niter)

DoForward(names) ==
    \E name \in names :
       /\ Has(name)
       /\ \E x \in Inputs(layers[name].in_dim), mask \in Masks(layers[name]) :
             Forward(name, x, mask)

DoSetDisabled(names) == \E name \in names, b \in BOOLEAN : SetDisabled(name, b)

DoFromLoraLinear ==
    \E act_cfg \in QatCfgs, w_cfg \in QatCfgs :
       FromLoraLinear(act_cfg, w_cfg, 0)

\* One PiSSALinear through its life: construction, materialisation,
\* decomposition on the exact path, forward passes.
Next ==
    \/ DoConstruct(PlainArgs \cup OptionArgs)
    \/ DoToEmpty({"lora"}, Seeds)
    \/ DoInitializeParameters({"lora"}, {1})
    \/ DoInitializePissa({"lora"}, NiterChoices)
    \/ DoForward({"lora"})
    \/ DoSetDisabled({"lora"})

Spec == Init /\ [][Next]_vars

\* Constructor calls on a dense 2 x 2 weight.
DenseArgs ==
    { [in_dim |-> 2, out_dim |-> 2, rank |-> r, alpha |-> 2, dropout |-> RZero,
       use_bias |-> FALSE, quantize_base |-> FALSE, kwargs |-> {},
       device |-> "cpu", W |-> <<<<Unit, RMul(R(2), Unit)>>, <<RMul(R(2), Unit), Unit>>>>,
       seed |-> 0] : r \in {1, 2} }

\* Materialised layers of every shape and rank, the layers on a dense
\* weight, and the layer with an NF4 base.
FsvdArgs ==
    PlainArgs
    \cup DenseArgs
    \cup {a \in OptionArgs : a.kwargs = {} /\ a.device = "cpu" /\ ~a.use_bias
                               /\ a.dropout = RZero}

\* A PiSSALinear decomposed up to MaxInit times, on the exact path and on the
\* svd_lowrank path in any order; calls with a power iteration are explored
\* as the first decomposition of a weight.
NextFsvd ==
    \/ DoConstruct(FsvdArgs)
    \/ DoFirstInitializePissa({"lora"}, FirstNiterChoices)
    \/ DoInitializePissa({"lora"}, FsvdNiterChoices)
    \/ DoForward({"lora"})
    \/ DoSetDisabled({"lora"})

SpecFsvd == Init /\ [][NextFsvd]_vars

\* A PiSSALinear and the QATPiSSALinear made from it.
NextQAT ==
    \/ DoConstruct(QatArgs)
    \/ DoFromLoraLinear
    \/ DoToEmpty({"qat"}, {1})
    \/ DoInitializeParameters({"qat"}, {1})
    \/ DoFirstInitializePissa(Names, {PyNone})
    \/ DoForward(Names)
    \/ DoSetDisabled(Names)

SpecQAT == Init /\ [][NextQAT]_vars

\* ================================================================ claims
\* The layer the most recent call acted on, and its tensors now.
Target == layers[last.target]
WNow(l) == heap[l.weight].val
UNow(l) == heap[l.u].val
SNow(l) == heap[l.s].val[1]
VNow(l) == heap[l.v].val
AllKept(l) == [i \in 1..l.in_dim |-> TRUE]

\* The most recent call was initialize_pissa and it returned normally.
InitDone == last.op = "initialize_pissa" /\ last.err = "none"
WBefore == last.pre[Target.weight].val

\* The plain base transform applied to x: weight x (+ bias).
PlainBase(l, x) ==
    IF l.use_bias THEN VecAdd(MatVec(WNow(l), x), heap[l.bias].val[1])
    ELSE MatVec(WNow(l), x)

\* V diag(s * c) U with the stored parameters.
AdapterMatrix(l, c) == MatMul(MatMul(VNow(l), Diag(VecScale(SNow(l), c))), UNow(l))

\* C1: after the first initialize_pissa on the exact-SVD path of a bias-less,
\* unquantized, dropout-free, enabled PiSSALinear, weight + V diag(s alpha/rank) U
\* is the weight that was loaded, and forward(x) = W x for every x.
C1_TotalTransformIsOriginal ==
    (/\ InitDone
     /\ last.arg = PyNone
     /\ ninit[Target.weight] = 1
     /\ Target.cls = "PiSSALinear"
     /\ ~Target.use_bias /\ ~Target.quantize_base
     /\ Target.dropout = RZero /\ ~Target.disabled)
    => /\ MatAdd(WNow(Target), AdapterMatrix(Target, Scale(Target))) = WBefore
       /\ \A x \in Inputs(Target.in_dim) :
             PissaForward(Target, heap, x, AllKept(Target)).out = MatVec(WBefore, x)

\* V diag(s) U over the components the decomposition produced, the first
\* min(rank, in_dim, out_dim) stored ones.
ProducedMatrix(l) ==
    LET k == Min(l.rank, Min(l.in_dim, l.out_dim))
    IN  MatMul(MatMul(FirstCols(VNow(l), k), Diag([c \in 1..k |-> SNow(l)[c]])),
               FirstRows(UNow(l), k))

\* The four tensors hold numbers of the model.
KnownParameters(l) ==
    Known(WNow(l)) /\ Known(UNow(l)) /\ Known(VNow(l)) /\ Known(<<SNow(l)>>)

\* C2 as stated: after a successful initialize_pissa call the stored
\* parameters satisfy W_before = V.weight diag(pissa_s) U.weight + weight,
\* for every W, rank and alpha, on both paths.
C2_StoredFactorsReconstruct ==
    (InitDone /\ KnownParameters(Target))
    => WBefore = MatAdd(AdapterMatrix(Target, R(1)), WNow(Target))

\* C2 amended: after a successful initialize_pissa call, on either path,
\* weight holds W_before - P in its storage format (the NF4 image of it in an
\* NF4 tensor), P being V diag(pissa_s) U over the min(rank, in_dim, out_dim)
\* components the decomposition produced; V.weight diag(pissa_s) U.weight is
\* P when rank <= min(in_dim, out_dim) and rank times P when the one
\* component produced was broadcast into rank > 1 slots; so
\* W_before = V.weight diag(pissa_s) U.weight + weight holds when the weight
\* is not NF4 and rank <= min(in_dim, out_dim).
C2_ResidualOfWrittenFactors ==
    (InitDone /\ KnownParameters(Target))
    => LET k == Min(Target.rank, Min(Target.in_dim, Target.out_dim))
           P == ProducedMatrix(Target)
           res == MatSub(WBefore, P)
       IN  /\ WNow(Target) = IF heap[Target.weight].nf4 THEN ToNF4(res) ELSE res
           /\ AdapterMatrix(Target, R(1))
                = [i \in 1..Target.out_dim |->
                     VecScale(P[i], R(IF k < Target.rank THEN Target.rank ELSE 1))]
           /\ (~heap[Target.weight].nf4 /\ k = Target.rank)
                => WBefore = MatAdd(AdapterMatrix(Target, R(1)), WNow(Target))

\* C2 witness: a truncating svd_lowrank call on a plain weight left a
\* non-zero residual and non-zero factors that add up to the weight before.
C2_Witness ==
    /\ InitDone
    /\ KnownParameters(Target)
    /\ last.arg = PyInt(1)
    /\ ~heap[Target.weight].nf4
    /\ Target.rank < Min(Target.in_dim, Target.out_dim)
    /\ WNow(Target) # ZeroMat(Target.out_dim, Target.in_dim)
    /\ ~IsMonomial(WNow(Target))
    /\ WBefore = MatAdd(AdapterMatrix(Target, R(1)), WNow(Target))

\* A precondition of the most recent initialize_pissa call was violated: one
\* of the four tensors was on meta, or fsvd_niter was given and is not a
\* non-negative integer.
InitPreconditionViolated ==
    \/ \E t \in DOMAIN last.pre : last.pre[t].meta
    \/ /\ last.arg.kind # "none"
       /\ ~(last.arg.kind = "int" /\ last.arg.n >= 0)

\* C3: an initialize_pissa call that violates a precondition raises, and
\* weight, pissa_u.weight, pissa_s and pissa_v.weight are what they were.
C3_FailedInitLeavesParameters ==
    (last.op = "initialize_pissa" /\ InitPreconditionViolated)
    => /\ last.err # "none"
       /\ \A t \in DOMAIN last.pre : heap[t] = last.pre[t]

\* C3 witness: a materialised, already decomposed layer rejects a bad
\* fsvd_niter.
C3_Witness ==
    /\ last.op = "initialize_pissa"
    /\ last.err = "RuntimeError"
    /\ last.arg = PyInt(-1)
    /\ ~AnyMeta(Target, heap)
    /\ ninit[Target.weight] = 1

\* C4: from_lora_linear on a source with a bias or an NF4 base fails and
\* yields no QAT layer.
C4_ConversionRejected ==
    (/\ last.op = "from_lora_linear"
     /\ layers["lora"].use_bias \/ layers["lora"].quantize_base)
    => last.err # "none" /\ ~Has("qat")

\* C5: from_lora_linear (both configs None) on a bias-less, unquantized,
\* materialised source keeps weight, pissa_u, pissa_s, pissa_v, and the new
\* layer's forward equals the source's for every input.
C5_ConversionPreservesForward ==
    (/\ last.op = "from_lora_linear" /\ last.err = "none"
     /\ ~layers["lora"].use_bias /\ ~layers["lora"].quantize_base
     /\ Materialized(layers["lora"], heap)
     /\ last.arg.act_cfg = NoneCfg /\ last.arg.w_cfg = NoneCfg)
    => /\ Has("qat")
       /\ WNow(layers["qat"]) = WNow(layers["lora"])
       /\ UNow(layers["qat"]) = UNow(layers["lora"])
       /\ SNow(layers["qat"]) = SNow(layers["lora"])
       /\ VNow(layers["qat"]) = VNow(layers["lora"])
       /\ \A x \in Inputs(layers["lora"].in_dim), mask \in Masks(layers["lora"]) :
             QATForward(layers["qat"], heap, x, mask).out
               = PissaForward(layers["lora"], heap, x, mask).out

\* C6: with disabled set, forward returns the base-transform output alone
\* (plain or NF4 linear map plus bias; fake-quantized linear map for the QAT
\* layer) and the adapter branch is not evaluated.
C6_DisabledIsBaseOnly ==
    (last.op = "forward" /\ last.err = "none" /\ Target.disabled)
    => /\ ~last.adapter
       /\ last.out =
            IF Target.cls = "QATPiSSALinear"
            THEN MatVec(FakeQuantMat(WNow(Target), Target.w_cfg),
                        FakeQuantVec(last.x, Target.act_cfg))
            ELSE PlainBase(Target, last.x)

\* C6 witness: a disabled forward pass on a layer whose adapter branch would
\* have contributed.
C6_Witness ==
    /\ last.op = "forward"
    /\ last.err = "none"
    /\ Target.disabled
    /\ AdapterBranch(Target, heap, Dropout(Target, last.x, last.arg))
         # ZeroVec(Target.out_dim)

\* forward(x) of the PiSSALinear is the base transform's output, every x.
ForwardIsBase(l) ==
    \A x \in Inputs(l.in_dim), mask \in Masks(l) :
        PissaForward(l, heap, x, mask).out = PlainBase(l, x)

\* C7 as stated: in every state before initialize_pissa has been called,
\* pissa_s is the zero vector, disabled is False as constructed, and (unless
\* the caller switched the adapter off) forward(x) is the base output.
C7_ZeroUntilDecomposed ==
    (/\ Has("lora")
     /\ ninit[layers["lora"].weight] = 0
     /\ Materialized(layers["lora"], heap))
    => /\ last.op = "construct" => ~layers["lora"].disabled
       /\ SNow(layers["lora"]) = ZeroVec(layers["lora"].rank)
       /\ ForwardIsBase(layers["lora"])

\* C7 amended: right after construction pissa_s is zero and disabled is
\* False; pissa_s changes only in to_empty, initialize_parameters or
\* initialize_pissa; and whenever
\* pissa_s is zero, forward(x) is the base output although pissa_u and
\* pissa_v are not zero.
C7_ZeroUntilEmptiedOrDecomposed ==
    /\ [](Has("lora") /\ last.op = "construct" /\ Materialized(layers["lora"], heap)
            => /\ ~layers["lora"].disabled
               /\ SNow(layers["lora"]) = ZeroVec(layers["lora"].rank)
               /\ ForwardIsBase(layers["lora"]))
    /\ [][Has("lora") /\ heap'[layers["lora"].s] # heap[layers["lora"].s]
            => last'.op \in {"to_empty", "initialize_parameters", "initialize_pissa"}]_vars
    /\ [](Has("lora") /\ Materialized(layers["lora"], heap)
            /\ SNow(layers["lora"]) = ZeroVec(layers["lora"].rank)
            => ForwardIsBase(layers["lora"]))

\* C7 witness: a forward pass on the freshly constructed layer, adapter
\* enabled, pissa_u and pissa_v non-zero.
C7_Witness ==
    /\ last.op = "forward"
    /\ last.adapter
    /\ ninit[Target.weight] = 0
    /\ SNow(Target) = ZeroVec(Target.rank)
    /\ MatVec(UNow(Target), last.x) # ZeroVec(Target.rank)
    /\ VNow(Target) # ZeroMat(Target.out_dim, Target.rank)
    /\ last.out = PlainBase(Target, last.x)

\* C8: QATPiSSALinear.forward(x) is linear(fq(x), fq(weight)) plus the
\* adapter branch on the un-quantized x; with both configs None it is the
\* forward of a PiSSALinear with the same parameters.
C8_QATForwardShape ==
    (/\ last.op = "forward" /\ last.err = "none"
     /\ Target.cls = "QATPiSSALinear" /\ ~Target.disabled)
    => /\ last.out =
            VecAdd(MatVec(FakeQuantMat(WNow(Target), Target.w_cfg),
                          FakeQuantVec(last.x, Target.act_cfg)),
                   MatVec(VNow(Target),
                          VecScale(VecMul(MatVec(UNow(Target),
                                                 Dropout(Target, last.x, last.arg)),
                                          SNow(Target)),
                                   Norm(Target.alpha, Target.rank))))
       /\ (Target.act_cfg = NoneCfg /\ Target.w_cfg = NoneCfg)
            => last.out = PissaForward(Target, heap, last.x, last.arg).out

\* C8 witness: a QAT forward pass whose activation quantiser changes x and
\* whose adapter branch is not zero.
C8_Witness ==
    /\ last.op = "forward"
    /\ last.err = "none"
    /\ Target.cls = "QATPiSSALinear"
    /\ ~Target.disabled
    /\ ~Target.act_cfg.none
    /\ FakeQuantVec(last.x, Target.act_cfg) # last.x
    /\ AdapterBranch(Target, heap, FakeQuantVec(last.x, Target.act_cfg))
         # AdapterBranch(Target, heap, last.x)

\* C9 as stated: with quantize_base False, construction fails exactly when
\* some quantization keyword argument is supplied.
C9_AnyKwargRejected ==
    (last.op = "construct" /\ ~last.arg.quantize_base)
    => (last.err = "ValueError" <=> last.arg.kwargs # {})

\* C9 amended: with quantize_base False, construction fails exactly when some
\* quantization keyword argument carries a truthy value.
C9_TruthyKwargRejected ==
    (last.op = "construct" /\ ~last.arg.quantize_base)
    => /\ last.err = "ValueError"
            <=> \E e \in last.arg.kwargs : e.v.kind # "none" /\ e.v.n # 0
       /\ last.err = "ValueError" => ~Has("lora")
       /\ last.err = "none" => Has("lora")

\* C9 witness: a construction with only falsy quantization keyword arguments
\* succeeds.
C9_Witness ==
    /\ last.op = "construct"
    /\ ~last.arg.quantize_base
    /\ last.arg.kwargs # {}
    /\ last.err = "none"
    /\ Has("lora")

\* The stored factors decompose W: every component c has unit vectors U[c]
\* and V[:, c]; with s = pissa_s[c] alpha / rank, the exact path gives
\* W U[c] = s V[:, c] and W^T V[:, c] = s U[c], and the svd_lowrank path, whose
\* factors are those of a projection of W, gives one of the two for all
\* its components.
Decomposes(l, W, exact) ==
    LET sc(c) == RMul(SNow(l)[c], Scale(l))
        Left(c) == MatVec(Transpose(W), Col(VNow(l), c)) = VecScale(UNow(l)[c], sc(c))
        Right(c) == MatVec(W, UNow(l)[c]) = VecScale(Col(VNow(l), c), sc(c))
    IN  /\ \A c \in 1..l.rank :
              /\ Dot(UNow(l)[c], UNow(l)[c]) = R(1)
              /\ Dot(Col(VNow(l), c), Col(VNow(l), c)) = R(1)
        /\ IF exact THEN \A c \in 1..l.rank : Left(c) /\ Right(c)
           ELSE (\A c \in 1..l.rank : Left(c)) \/ (\A c \in 1..l.rank : Right(c))

\* C10 as stated: initialize_pissa on an already decomposed layer is not
\* rejected, on either path and whatever the weight's storage, and it
\* decomposes the current (residual) weight: the factors written decompose
\* the weight before the call, and the new weight is that weight minus their
\* product (its NF4 image in an NF4 tensor).
C10_RepeatedInitDecomposesCurrent ==
    (/\ last.op = "initialize_pissa"
     /\ ~InitPreconditionViolated
     /\ ninit[Target.weight] >= (IF last.err = "none" THEN 2 ELSE 1))
    => /\ last.err = "none"
       /\ KnownParameters(Target)
            => /\ Decomposes(Target, WBefore, last.arg = PyNone)
               /\ WNow(Target) = StoreWeight(heap[Target.weight],
                                             MatSub(WBefore, ProducedMatrix(Target))).val

\* The most recent call took the svd_lowrank path with a rank above out_dim,
\* or with a power iteration and a rank above in_dim.
RankAboveLowrankShape ==
    /\ last.arg.kind # "none"
    /\ \/ Target.rank > Target.out_dim
       \/ last.arg.n >= 1 /\ Target.rank > Target.in_dim

\* C10 amended: initialize_pissa has no guard against repetition.  A call
\* with valid arguments raises exactly when torch.svd_lowrank does, whether
\* or not the layer was decomposed before: under torch through 2.2, on the
\* svd_lowrank path with rank above out_dim (with a power iteration: above
\* in_dim as well), with AssertionError and the four tensors as they were.
\* Otherwise a call on an already decomposed layer returns normally, the
\* factors written decompose the weight before the call, and the new weight
\* is that weight minus their product (its NF4 image in an NF4 tensor).
C10_RepeatedInitNotGuarded ==
    /\ (last.op = "initialize_pissa" /\ ~InitPreconditionViolated)
         => /\ last.err = "AssertionError"
                 <=> (torch = "through 2.2" /\ RankAboveLowrankShape)
            /\ last.err = "AssertionError"
                 => \A t \in DOMAIN last.pre : heap[t] = last.pre[t]
    /\ (/\ last.op = "initialize_pissa"
        /\ ~InitPreconditionViolated
        /\ ninit[Target.weight] >= (IF last.err = "none" THEN 2 ELSE 1))
       => /\ last.err \in {"none", "AssertionError"}
          /\ (last.err = "none" /\ KnownParameters(Target))
               => /\ Decomposes(Target, WBefore, last.arg = PyNone)
                  /\ WNow(Target) = StoreWeight(heap[Target.weight],
                                                MatSub(WBefore, ProducedMatrix(Target))).val

\* C10 witness: the second of two calls, made on the dense weight a
\* truncating svd_lowrank call left, changed all four tensors, and the
\* factors it wrote do not decompose the original weight.
C10_Witness ==
    /\ InitDone
    /\ ninit[Target.weight] = 2
    /\ Target.rank < Min(Target.in_dim, Target.out_dim)
    /\ KnownParameters(Target)
    /\ ~IsMonomial(WBefore)
    /\ \A t \in DOMAIN last.pre : heap[t] # last.pre[t]
    /\ ~Decomposes(Target, orig[Target.weight], FALSE)
    /\ MatAdd(WNow(Target), AdapterMatrix(Target, R(1))) # orig[Target.weight]

====
